---- MODULE Spec2Model ----
(***************************************************************************)
(* A model of emob_timeseries.py: the synthesis of a one-year table of     *)
(* available battery capacity, energy demand and rest energy of a cluster  *)
(* of vehicle groups (build_cluster_timeseries), its trip handlers, the    *)
(* time-deviation generator and the block consolidation passes.            *)
(*                                                                         *)
(* Time is counted in minutes since <year>-01-01 00:00.  Energies (kWh)    *)
(* and distances (km) are exact integers.  Quantities of the deviation     *)
(* generator that the code holds as floats (max_abweichung_minuten,        *)
(* stddev_minuten, the raw draws) are fixed-point numbers with Scale       *)
(* units per minute.                                                       *)
(***************************************************************************)
EXTENDS Integers, Sequences, FiniteSets, TLC

\* ------------------------------------------------------------------------
\* Bounds of the model
\* ------------------------------------------------------------------------
YearDays == 12          \* days of the modelled year (the code: 365 or 366)
RowsPerDay == 3         \* table rows per day; freq = one day / RowsPerDay
MaxCount == 2           \* largest 'anzahl' of a vehicle group
Scale == 4              \* fixed-point units per minute (deviation generator)
RngMod == 5             \* number of distinct values of one random draw
TableLen == 5           \* rows of the free-standing tables (consolidation)

\* ------------------------------------------------------------------------
\* Program constants
\* ------------------------------------------------------------------------
DefaultMaxUniform == 15
DefaultStddev == 10
DefaultMaxNormal == 30
ExclusionHead == 2      \* first_jan, second_jan
ExclusionTail == 2      \* dec_30, dec_31

WD == <<"Mo", "Di", "Mi", "Do", "Fr", "Sa", "So">>
MinutesPerDay == 24 * 60
FirstWeekday == 0       \* date(2024, 1, 1).weekday(): a Monday

freq_delta == MinutesPerDay \div RowsPerDay
NRows == YearDays * RowsPerDay
year_start == 0
year_end == YearDays * MinutesPerDay - freq_delta

Max(a, b) == IF a >= b THEN a ELSE b

\* Timestamp of table row r (rows are numbered from 1) and its inverse.
Ts(r) == (r - 1) * freq_delta
RowOf(ts) == ts \div freq_delta + 1
InIndex(ts) == ts % freq_delta = 0 /\ ts >= 0 /\ ts <= year_end
Floor(ts) == (ts \div freq_delta) * freq_delta
DayOfRow(r) == (r - 1) \div RowsPerDay

days_of_year == 0 .. (YearDays - 1)
exclusion_days ==
    (0 .. (ExclusionHead - 1)) \cup ((YearDays - ExclusionTail) .. (YearDays - 1))
Weekday(day) == (day + FirstWeekday) % Len(WD)

RECURSIVE SumSeq(_)
SumSeq(s) == IF s = <<>> THEN 0 ELSE Head(s) + SumSeq(Tail(s))

RECURSIVE SetToSortedSeq(_)
SetToSortedSeq(S) ==
    IF S = {} THEN <<>>
    ELSE LET m == CHOOSE x \in S : \A y \in S : x <= y
         IN  <<m>> \o SetToSortedSeq(S \ {m})

\* ------------------------------------------------------------------------
\* Zeitverzerrung: generate_time_deviations, apply_time_deviation
\* ------------------------------------------------------------------------

\* The random state of numpy: either never seeded in this process (the
\* draws come from operating-system entropy) or seeded, in which case the
\* stream is a function of the seed and of the number of draws consumed.
RngUnseeded == [seeded |-> FALSE, seed |-> 0, pos |-> 0]
RngSeed(s) == [seeded |-> TRUE, seed |-> s, pos |-> 0]
Stream(s, k) == (3 * s + 2 * k * k + k) % RngMod

\* One raw draw in 0 .. RngMod-1 and the state after it; 'e' is the value
\* the entropy source delivers when the state was never seeded.
Draw(rng, e) == IF rng.seeded THEN Stream(rng.seed, rng.pos) ELSE e
Advance(rng) == IF rng.seeded THEN [rng EXCEPT !.pos = @ + 1] ELSE rng

\* np.random.uniform(-max_dev, max_dev): low + (high - low) * u, u in [0, 1)
UniformDraw(max_dev, u) == (2 * max_dev * u) \div RngMod - max_dev
\* np.random.normal(0, stddev): stddev * z for a standard normal variate z
NormalDraw(stddev, u) == stddev * (2 * u - (RngMod - 1))
\* np.clip
Clip(x, lo, hi) == IF x < lo THEN lo ELSE IF x > hi THEN hi ELSE x

\* int(round(dev)): Python rounds to the nearest integer, ties to even.
RoundHalfEven(x) ==
    LET q == x \div Scale
        rem == x - q * Scale
    IN  IF 2 * rem < Scale THEN q
        ELSE IF 2 * rem > Scale THEN q + 1
        ELSE IF q % 2 = 0 THEN q ELSE q + 1

\* The state of the stream from which a call of generate_time_deviations
\* takes its draws (lines 195-197: a configured seed restarts the stream).
SeedIfConfigured(rng, config) ==
    IF config.seed # {} THEN RngSeed(CHOOSE s \in config.seed : TRUE) ELSE rng

\* One deviation in whole minutes from one raw draw u (lines 199-209).
Deviation(config, u) ==
    IF config.typ = "uniform"
    THEN RoundHalfEven(UniformDraw(config.max_abweichung_minuten, u))
    ELSE RoundHalfEven(Clip(NormalDraw(config.stddev_minuten, u),
                            -config.max_abweichung_minuten,
                            config.max_abweichung_minuten))

RECURSIVE DrawN(_, _, _, _)
DrawN(n, config, rng, entropy) ==
    IF n = 0 THEN [devs |-> <<>>, rng |-> rng]
    ELSE LET u == Draw(rng, Head(entropy))
             rest == DrawN(n - 1, config, Advance(rng), Tail(entropy))
         IN  [devs |-> <<Deviation(config, u)>> \o rest.devs, rng |-> rest.rng]

\* generate_time_deviations(n_vehicles, config): the list of deviations and
\* the random state the call leaves behind.
generate_time_deviations(n_vehicles, config, rng, entropy) ==
    DrawN(n_vehicles, config, SeedIfConfigured(rng, config), entropy)

\* apply_time_deviation: datetime arithmetic on today's date, of which only
\* the time of day is returned.
apply_time_deviation(base_time, deviation_minutes) ==
    (base_time + deviation_minutes) % MinutesPerDay

\* ------------------------------------------------------------------------
\* Block consolidation: _set_energy_demand_at_block_end,
\* _set_rest_energy_at_block_start
\* ------------------------------------------------------------------------
has_capacity(capacity) == [r \in 1 .. Len(capacity) |-> capacity[r] > 0]
AsInt(b) == IF b THEN 1 ELSE 0

\* has_capacity.astype(int).diff(): undefined (NaN) at the first row, which
\* compares unequal to 1 and to -1.
DiffIs(has, r, v) == r >= 2 /\ AsInt(has[r]) - AsInt(has[r - 1]) = v

\* A variant of block_starts that leaves out lines 358-359.
block_starts_without_first_row(has) ==
    SetToSortedSeq({r \in 1 .. Len(has) : DiffIs(has, r, 1)})

\* df.index[capacity_diff == 1], then the union with the first row when
\* that row has capacity.
block_starts(has) ==
    LET N == Len(has)
        rising == {r \in 1 .. N : DiffIs(has, r, 1)}
    IN  SetToSortedSeq(IF N > 0 /\ has[1] THEN {1} \cup rising ELSE rising)

\* df.index[(capacity_diff == -1).shift(-1, fill_value=False)], then the
\* union with the last row when that row has capacity.
block_ends(has) ==
    LET N == Len(has)
        falling == {r \in 1 .. N : r + 1 <= N /\ DiffIs(has, r + 1, -1)}
    IN  SetToSortedSeq(IF N > 0 /\ has[N] THEN falling \cup {N} ELSE falling)

\* original[block_mask].sum()
BlockTotal(original, has, start, end) ==
    SumSeq([r \in 1 .. Len(original) |->
               IF r >= start /\ r <= end /\ has[r] THEN original[r] ELSE 0])

\* The loop over the blocks: the i-th start is paired with the i-th end and
\* the block's total is written at row Target(start, end) when it is > 0.
RECURSIVE PlaceTotals(_, _, _, _, _, _, _)
PlaceTotals(column, original, has, starts, ends, i, atEnd) ==
    IF i > Len(starts) THEN column
    ELSE IF i > Len(ends)
         THEN PlaceTotals(column, original, has, starts, ends, i + 1, atEnd)
    ELSE LET start == starts[i]
             end == ends[i]
             total == BlockTotal(original, has, start, end)
             target == IF atEnd THEN end ELSE start
             written == IF total > 0 THEN [column EXCEPT ![target] = total]
                        ELSE column
         IN  PlaceTotals(written, original, has, starts, ends, i + 1, atEnd)

Zeros(N) == [r \in 1 .. N |-> 0]

\* A variant of set_energy_demand_at_block_end that leaves out line 338.
set_energy_demand_without_reset(capacity, demand) ==
    LET has == has_capacity(capacity)
    IN  PlaceTotals(demand, demand, has,
                    block_starts(has), block_ends(has), 1, TRUE)

set_energy_demand_at_block_end(capacity, demand) ==
    LET has == has_capacity(capacity)
    IN  PlaceTotals(Zeros(Len(demand)), demand, has,
                    block_starts(has), block_ends(has), 1, TRUE)

\* A variant of set_rest_energy_at_block_start that leaves out line 391.
set_rest_energy_without_reset(capacity, rest) ==
    LET has == has_capacity(capacity)
    IN  PlaceTotals(rest, rest, has,
                    block_starts(has), block_ends(has), 1, FALSE)

set_rest_energy_at_block_start(capacity, rest) ==
    LET has == has_capacity(capacity)
    IN  PlaceTotals(Zeros(Len(rest)), rest, has,
                    block_starts(has), block_ends(has), 1, FALSE)

\* ------------------------------------------------------------------------
\* State
\* ------------------------------------------------------------------------
VARIABLES
    cfg,                      \* cfg["fahrzeuge"]: the vehicle groups
    pc,                       \* position in build_cluster_timeseries
    gi,                       \* index of the group being processed
    day,                      \* day of the second loop over days_of_year
    available_capacity_kWh,   \* the three columns of df
    energy_demand_kWh,
    rest_energy_kWh,
    rng,                      \* process-wide state of np.random
    leave_deviations,         \* locals of the trip handler called last
    return_deviations,
    calls,                    \* the two generator calls of that call
    trips,                    \* lt, rt, ... of each vehicle of that call
    net,                      \* history: capacity as it were without clip
    demand_added,             \* history: total of the raw demand samples
    original_demand,          \* locals of the consolidation passes
    original_rest,
    once                      \* history: the table after one consolidation

vars == <<cfg, pc, gi, day, available_capacity_kWh, energy_demand_kWh,
          rest_energy_kWh, rng, leave_deviations, return_deviations, calls,
          trips, net, demand_added, original_demand, original_rest, once>>

table == <<available_capacity_kWh, energy_demand_kWh, rest_energy_kWh>>

\* ------------------------------------------------------------------------
\* Abwesenheits-Handler
\* ------------------------------------------------------------------------

\* A variant of tour_return_day that compares with >= instead of >.
tour_return_day_or_equal(d, actual_leave, actual_ret) ==
    IF actual_ret >= actual_leave THEN d ELSE d + 1

\* bd of _handle_tour_sub_with_deviation (line 466)
tour_return_day(d, actual_leave, actual_ret) ==
    IF actual_ret > actual_leave THEN d ELSE d + 1

\* bd of _handle_multiday_sub_with_deviation (lines 527-528)
multiday_return_day(d, actual_leave, actual_ret, offset) ==
    IF offset # 0 THEN d + offset
    ELSE IF actual_ret > actual_leave THEN d ELSE d + 1

\* A variant of ReduceCapacity whose mask extends one step further, up to
\* the return timestamp itself.
ReduceCapacityThroughReturn(column, lt, end_time, cap) ==
    IF end_time >= lt
    THEN [r \in 1 .. Len(column) |->
             IF Ts(r) >= lt /\ Ts(r) <= end_time + freq_delta
             THEN column[r] - cap
             ELSE column[r]]
    ELSE column

\* df.loc[mask, "available_capacity_kWh"] -= cap, mask = lt <= index <= end
ReduceCapacity(column, lt, end_time, cap) ==
    IF end_time >= lt
    THEN [r \in 1 .. Len(column) |->
             IF Ts(r) >= lt /\ Ts(r) <= end_time THEN column[r] - cap
             ELSE column[r]]
    ELSE column

\* df.at[ts_req, "energy_demand_kWh"] += km * cons, at floor(lt) - freq
AddDemand(column, lt, amount) ==
    LET ts_req == Floor(lt) - freq_delta
    IN  IF ts_req >= year_start /\ InIndex(ts_req)
        THEN [column EXCEPT ![RowOf(ts_req)] = @ + amount]
        ELSE column

DemandRecorded(lt) ==
    Floor(lt) - freq_delta >= year_start /\ InIndex(Floor(lt) - freq_delta)

\* df.at[rt_floor, "rest_energy_kWh"] += max(cap - km * cons, 0.0)
AddRest(column, rt, amount) ==
    LET rt_floor == Floor(rt)
    IN  IF rt_floor <= year_end /\ InIndex(rt_floor)
        THEN [column EXCEPT ![RowOf(rt_floor)] = @ + amount]
        ELSE column

\* The body of the try statement for one vehicle.  'fault' is the statement
\* at which an exception is raised: 0 none, 1 the capacity reduction, 2 the
\* demand sample, 3 the rest sample.  The except clause logs and continues:
\* what the statements before the failing one wrote stays written.
TryBody(T, lt, rt, cap, km, cons, fault) ==
    LET T1 == [T EXCEPT
                 !.cap = ReduceCapacity(@, lt, rt - freq_delta, cap),
                 !.net = ReduceCapacity(@, lt, rt - freq_delta, cap)]
        T2 == [T1 EXCEPT
                 !.dem = AddDemand(@, lt, km * cons),
                 !.added = IF DemandRecorded(lt) THEN @ + km * cons ELSE @]
        T3 == [T2 EXCEPT !.rest = AddRest(@, rt, Max(cap - km * cons, 0))]
    IN  CASE fault = 1 -> T
          [] fault = 2 -> T1
          [] fault = 3 -> T2
          [] OTHER -> T3

\* What one vehicle wrote to a column: the rows whose value differs between
\* the column before and after its pass, each with the amount added.
RowChanges(before, after) ==
    {<<r, after[r] - before[r]>> :
        r \in {q \in 1 .. Len(before) : after[q] # before[q]}}

\* One pass of the loop 'for i in range(n)' of a handler.
ProcessVehicle(T, d, t, cap, cons, dev_leave, dev_ret, fault) ==
    LET actual_leave == apply_time_deviation(t.abfahrt, dev_leave)
        actual_ret == apply_time_deviation(t.rueckkehr, dev_ret)
        lt == d * MinutesPerDay + actual_leave
        bd == IF t.mode = "tour"
              THEN tour_return_day(d, actual_leave, actual_ret)
              ELSE multiday_return_day(d, actual_leave, actual_ret,
                                       t.tage_spaeter)
        rt == bd * MinutesPerDay + actual_ret
        skipped == lt < year_start \/ rt > year_end
        U == IF skipped THEN T ELSE TryBody(T, lt, rt, cap, t.km, cons, fault)
        trip == [day |-> d, mode |-> t.mode, base_leave |-> t.abfahrt,
                 base_ret |-> t.rueckkehr, offset |-> t.tage_spaeter,
                 dev_leave |-> dev_leave, dev_ret |-> dev_ret,
                 actual_leave |-> actual_leave, actual_ret |-> actual_ret,
                 lt |-> lt, rt |-> rt, skipped |-> skipped,
                 fault |-> IF skipped THEN 0 ELSE fault,
                 changed |-> [cap |-> U.cap # T.cap, dem |-> U.dem # T.dem,
                              rest |-> U.rest # T.rest],
                 cap |-> cap, demand |-> t.km * cons,
                 written |-> [cap |-> RowChanges(T.cap, U.cap),
                              dem |-> RowChanges(T.dem, U.dem),
                              rest |-> RowChanges(T.rest, U.rest)]]
    IN  [U EXCEPT !.trips = Append(@, trip)]

RECURSIVE ProcessVehicles(_, _, _, _, _, _, _, _, _)
ProcessVehicles(T, d, t, cap, cons, devs_leave, devs_ret, faults, i) ==
    IF i > Len(devs_leave) THEN T
    ELSE ProcessVehicles(
             ProcessVehicle(T, d, t, cap, cons, devs_leave[i], devs_ret[i],
                            faults[i]),
             d, t, cap, cons, devs_leave, devs_ret, faults, i + 1)

\* Lines 453-454 and 514-515: the two calls of the deviation generator of
\* one handler call.  'calls' records, for each call, the state of the
\* stream its draws start from and the state it leaves behind.
handler_draws(n, zv, rng0, entropy) ==
    LET first == generate_time_deviations(n, zv, rng0, SubSeq(entropy, 1, n))
        second == generate_time_deviations(n, zv, first.rng,
                                           SubSeq(entropy, n + 1, 2 * n))
    IN  [leave_deviations |-> first.devs, return_deviations |-> second.devs,
         rng |-> second.rng,
         calls |-> <<[from |-> SeedIfConfigured(rng0, zv), to |-> first.rng],
                     [from |-> SeedIfConfigured(first.rng, zv),
                      to |-> second.rng]>>]

\* _handle_tour_sub_with_deviation and _handle_multiday_sub_with_deviation:
\* the draws, then the loop over the vehicles.
handle_sub_with_deviation(T, d, t, n, cap, cons, zv, rng0, entropy, faults) ==
    LET draws == handler_draws(n, zv, rng0, entropy)
        U == ProcessVehicles([T EXCEPT !.trips = <<>>], d, t, cap, cons,
                             draws.leave_deviations, draws.return_deviations,
                             faults, 1)
    IN  [T |-> U, draws |-> draws]

\* ------------------------------------------------------------------------
\* Configurations
\* ------------------------------------------------------------------------
Steht == [mode |-> "steht", km |-> 0, abfahrt |-> 0, rueckkehr |-> 0,
          tage_spaeter |-> 0]
NichtVerfuegbar == [mode |-> "nicht_verfuegbar", km |-> 0, abfahrt |-> 0,
                    rueckkehr |-> 0, tage_spaeter |-> 0]
Tour(km, ab, rk) == [mode |-> "tour", km |-> km, abfahrt |-> ab,
                     rueckkehr |-> rk, tage_spaeter |-> 0]
Mehrtagstour(km, ab, rk, off) ==
    [mode |-> "mehrtagstour", km |-> km, abfahrt |-> ab, rueckkehr |-> rk,
     tage_spaeter |-> off]

hhmm(h, m) == h * 60 + m

\* zeitverzerrung: values in fixed-point units
Zeitverzerrung(typ, stddev, max_dev, seed) ==
    [typ |-> typ, stddev_minuten |-> stddev, max_abweichung_minuten |-> max_dev,
     seed |-> seed]
\* group.get("zeitverzerrung", {}): the defaults of generate_time_deviations
DefaultZv == Zeitverzerrung("normal", DefaultStddev * Scale,
                            DefaultMaxNormal * Scale, {})
ZeroZv == Zeitverzerrung("normal", DefaultStddev * Scale, 0, {})

\* plan.get(WD[day.weekday()], {"steht": True})
PlanEntry(plan, d) ==
    IF WD[Weekday(d) + 1] \in DOMAIN plan THEN plan[WD[Weekday(d) + 1]]
    ELSE Steht

\* The inputs of the build: clusters of 1 .. MaxGroups vehicle groups.
Kms == {1}
TripKms == {1, 2}
Capacities == {3}
Consumptions == {2}
Counts == 1 .. MaxCount

DayTrips ==
    {Tour(km, hhmm(8, 0), hhmm(16, 0)) : km \in Kms}
    \cup {Tour(km, hhmm(0, 0), hhmm(8, 0)) : km \in Kms}
    \cup {Tour(km, hhmm(16, 0), hhmm(8, 0)) : km \in Kms}
    \cup {Tour(km, hhmm(23, 0), hhmm(1, 0)) : km \in Kms}
LongTrips == {Mehrtagstour(km, hhmm(8, 0), hhmm(8, 0), 2) : km \in Kms}
FirstEntries == {Steht, NichtVerfuegbar} \cup DayTrips \cup LongTrips
SecondEntries == {Steht, NichtVerfuegbar}
                 \cup {Tour(km, hhmm(8, 0), hhmm(16, 0)) : km \in Kms}

\* Weekly plans: entries for Wednesday and Thursday; the other weekdays are
\* missing from the plan and default to 'steht'.
Plans == {("Mi" :> a) @@ ("Do" :> b) : a \in FirstEntries, b \in SecondEntries}
Zvs == {ZeroZv}

Group(n, cap, cons, plan, zv) ==
    [anzahl |-> n, akku_kapazitaet_kwh |-> cap, verbrauch_kwh_pro_km |-> cons,
     wochenplan |-> plan, zeitverzerrung |-> zv]
Groups == {Group(n, cap, cons, plan, zv) :
              n \in Counts, cap \in Capacities, cons \in Consumptions,
              plan \in Plans, zv \in Zvs}
ClusterSizes == {1, 2}
FleetClusters == UNION {[1 .. k -> Groups] : k \in ClusterSizes}

\* Clusters of one vehicle with one trip a week, on Friday, at any pair of
\* clock times and with random deviations.
ClockTimes == {hhmm(0, 0), hhmm(0, 5), hhmm(8, 0), hhmm(16, 0), hhmm(23, 55)}
DaysLater == {0, 1, 2}
SingleTrips ==
    {Tour(km, ab, rk) : km \in TripKms, ab \in ClockTimes, rk \in ClockTimes}
    \cup {Mehrtagstour(km, ab, rk, off) :
             km \in TripKms, ab \in ClockTimes, rk \in ClockTimes,
             off \in DaysLater}
SeededZv == Zeitverzerrung("uniform", 0, DefaultMaxUniform * Scale, {1})
TripZvs == {DefaultZv, SeededZv}
TripClusters ==
    {<<Group(1, cap, cons, "Fr" :> t, zv)>> :
        cap \in Capacities, cons \in Consumptions, t \in SingleTrips,
        zv \in TripZvs}

Clusters == FleetClusters \cup TripClusters

\* ------------------------------------------------------------------------
\* build_cluster_timeseries
\* ------------------------------------------------------------------------
\* The random draws an unseeded generator can deliver to one handler call:
\* one representative draw for each distinct deviation it can produce.  A
\* seeded generator takes nothing from the entropy source.
EntropyValues(zv) ==
    {CHOOSE u \in 0 .. (RngMod - 1) : Deviation(zv, u) = d :
        d \in {Deviation(zv, v) : v \in 0 .. (RngMod - 1)}}
Entropies(n, zv, rng0) ==
    IF zv.seed # {} \/ rng0.seeded THEN {[i \in 1 .. (2 * n) |-> 0]}
    ELSE [1 .. (2 * n) -> EntropyValues(zv)]

InitBuild(clusters) ==
    /\ cfg \in clusters
    /\ pc = "credit"
    /\ gi = 1
    /\ day = 0
    /\ available_capacity_kWh = Zeros(NRows)
    /\ energy_demand_kWh = Zeros(NRows)
    /\ rest_energy_kWh = Zeros(NRows)
    /\ rng = RngUnseeded
    /\ leave_deviations = <<>>
    /\ return_deviations = <<>>
    /\ calls = <<>>
    /\ trips = <<>>
    /\ net = Zeros(NRows)
    /\ demand_added = 0
    /\ original_demand = <<>>
    /\ original_rest = <<>>
    /\ once = <<>>

Init == InitBuild(Clusters)

group == cfg[gi]

\* Lines 269-273: the full-day credit of every day that is not excluded.
Credit(column, g) ==
    [r \in 1 .. Len(column) |->
        IF DayOfRow(r) \in exclusion_days THEN column[r]
        ELSE column[r] + g.akku_kapazitaet_kwh * g.anzahl]

CreditGroup ==
    /\ pc = "credit"
    /\ available_capacity_kWh' = Credit(available_capacity_kWh, group)
    /\ net' = Credit(net, group)
    /\ pc' = "days"
    /\ day' = 0
    /\ UNCHANGED <<cfg, gi, energy_demand_kWh, rest_energy_kWh, rng,
                   leave_deviations, return_deviations, calls, trips, demand_added,
                   original_demand, original_rest, once>>

InDayLoop == pc = "days" /\ day < YearDays

\* Lines 277-278: 'continue' on an excluded day.
ExcludedDay ==
    /\ InDayLoop
    /\ day \in exclusion_days
    /\ day' = day + 1
    /\ UNCHANGED <<cfg, pc, gi, table, rng, leave_deviations,
                   return_deviations, calls, trips, net, demand_added,
                   original_demand, original_rest, once>>

\* Lines 280-282: 'continue' on a stationary day.
StationaryDay ==
    /\ InDayLoop
    /\ day \notin exclusion_days
    /\ PlanEntry(group.wochenplan, day).mode = "steht"
    /\ day' = day + 1
    /\ UNCHANGED <<cfg, pc, gi, table, rng, leave_deviations,
                   return_deviations, calls, trips, net, demand_added,
                   original_demand, original_rest, once>>

\* Lines 284-287
Debit(column, d, g) ==
    [r \in 1 .. Len(column) |->
        IF DayOfRow(r) = d THEN column[r] - g.akku_kapazitaet_kwh * g.anzahl
        ELSE column[r]]

UnavailableDay ==
    /\ InDayLoop
    /\ day \notin exclusion_days
    /\ PlanEntry(group.wochenplan, day).mode = "nicht_verfuegbar"
    /\ available_capacity_kWh' = Debit(available_capacity_kWh, day, group)
    /\ net' = Debit(net, day, group)
    /\ day' = day + 1
    /\ UNCHANGED <<cfg, pc, gi, energy_demand_kWh, rest_energy_kWh, rng,
                   leave_deviations, return_deviations, calls, trips, demand_added,
                   original_demand, original_rest, once>>

\* Lines 288-311: the call of a trip handler; FaultSet is the set of
\* statements of the try body at which an exception may be raised.
TripDay(mode, FaultSet) ==
    /\ InDayLoop
    /\ day \notin exclusion_days
    /\ PlanEntry(group.wochenplan, day).mode = mode
    /\ \E entropy \in Entropies(group.anzahl, group.zeitverzerrung, rng),
          faults \in [1 .. group.anzahl -> FaultSet] :
          LET T == [cap |-> available_capacity_kWh, dem |-> energy_demand_kWh,
                    rest |-> rest_energy_kWh, net |-> net,
                    added |-> demand_added, trips |-> <<>>]
              h == handle_sub_with_deviation(
                       T, day, PlanEntry(group.wochenplan, day), group.anzahl,
                       group.akku_kapazitaet_kwh, group.verbrauch_kwh_pro_km,
                       group.zeitverzerrung, rng, entropy, faults)
          IN  /\ available_capacity_kWh' = h.T.cap
              /\ energy_demand_kWh' = h.T.dem
              /\ rest_energy_kWh' = h.T.rest
              /\ net' = h.T.net
              /\ demand_added' = h.T.added
              /\ trips' = h.T.trips
              /\ rng' = h.draws.rng
              /\ leave_deviations' = h.draws.leave_deviations
              /\ return_deviations' = h.draws.return_deviations
              /\ calls' = h.draws.calls
    /\ day' = day + 1
    /\ UNCHANGED <<cfg, pc, gi, original_demand, original_rest, once>>

TourDay == TripDay("tour", {0})
MultidayDay == TripDay("mehrtagstour", {0})

\* Lines 313-314: the clip, at the end of the body of the loop over the
\* groups; then the next group, or the consolidation after the last group.
\* A variant of clip_lower_0 that leaves the column as it is.
clip_left_out(column) == column

clip_lower_0(column) == [r \in 1 .. Len(column) |-> Max(column[r], 0)]

ClampGroup ==
    /\ pc = "days"
    /\ day = YearDays
    /\ available_capacity_kWh' = clip_lower_0(available_capacity_kWh)
    /\ IF gi < Len(cfg)
       THEN gi' = gi + 1 /\ pc' = "credit"
       ELSE gi' = gi /\ pc' = "demand"
    /\ UNCHANGED <<cfg, day, energy_demand_kWh, rest_energy_kWh, rng,
                   leave_deviations, return_deviations, calls, trips, net,
                   demand_added, original_demand, original_rest, once>>

\* Line 317
SetEnergyDemand ==
    /\ pc = "demand"
    /\ original_demand' = energy_demand_kWh
    /\ energy_demand_kWh' =
           set_energy_demand_at_block_end(available_capacity_kWh,
                                          energy_demand_kWh)
    /\ pc' = "rest"
    /\ UNCHANGED <<cfg, gi, day, available_capacity_kWh, rest_energy_kWh, rng,
                   leave_deviations, return_deviations, calls, trips, net,
                   demand_added, original_rest, once>>

\* Line 318; the table is then returned.
SetRestEnergy ==
    /\ pc = "rest"
    /\ original_rest' = rest_energy_kWh
    /\ rest_energy_kWh' =
           set_rest_energy_at_block_start(available_capacity_kWh,
                                          rest_energy_kWh)
    /\ pc' = "done"
    /\ UNCHANGED <<cfg, gi, day, available_capacity_kWh, energy_demand_kWh,
                   rng, leave_deviations, return_deviations, calls, trips, net,
                   demand_added, original_demand, once>>

Next ==
    \/ CreditGroup
    \/ ExcludedDay
    \/ StationaryDay
    \/ UnavailableDay
    \/ TourDay
    \/ MultidayDay
    \/ ClampGroup
    \/ SetEnergyDemand
    \/ SetRestEnergy

Spec == Init /\ [][Next]_vars

\* ------------------------------------------------------------------------
\* The build as a function of the configuration, for groups whose
\* deviations are all 0 (max_abweichung_minuten = 0): the same statements
\* as the actions above, applied group by group and day by day.
\* ------------------------------------------------------------------------
ZeroDeviations(c) ==
    \A i \in 1 .. Len(c) : c[i].zeitverzerrung.max_abweichung_minuten = 0

NoDeviation(n) == [i \in 1 .. n |-> 0]

\* Lines 277-311: the body of the loop over the days, for one day.
DayPass(T, d, g) ==
    LET t == PlanEntry(g.wochenplan, d)
    IN  IF d \in exclusion_days \/ t.mode = "steht" THEN T
        ELSE IF t.mode = "nicht_verfuegbar"
        THEN [T EXCEPT !.cap = Debit(@, d, g), !.net = Debit(@, d, g)]
        ELSE ProcessVehicles(T, d, t, g.akku_kapazitaet_kwh,
                             g.verbrauch_kwh_pro_km, NoDeviation(g.anzahl),
                             NoDeviation(g.anzahl), NoDeviation(g.anzahl), 1)

\* Line 276: for day in days
RECURSIVE DaysPass(_, _, _)
DaysPass(T, d, g) ==
    IF d >= YearDays THEN T ELSE DaysPass(DayPass(T, d, g), d + 1, g)

\* Lines 261-314: the body of the loop over the groups, for one group.
GroupPass(T, g) ==
    LET credited == [T EXCEPT !.cap = Credit(@, g), !.net = Credit(@, g)]
        driven == DaysPass(credited, 0, g)
    IN  [driven EXCEPT !.cap = clip_lower_0(@)]

\* Line 261: for group in cfg["fahrzeuge"]
RECURSIVE GroupsPass(_, _, _)
GroupsPass(T, c, i) ==
    IF i > Len(c) THEN T ELSE GroupsPass(GroupPass(T, c[i]), c, i + 1)

build_cluster_timeseries(c) ==
    LET T0 == [cap |-> Zeros(NRows), dem |-> Zeros(NRows),
               rest |-> Zeros(NRows), net |-> Zeros(NRows), added |-> 0,
               trips |-> <<>>]
        T == GroupsPass(T0, c, 1)
    IN  <<T.cap, set_energy_demand_at_block_end(T.cap, T.dem),
          set_rest_energy_at_block_start(T.cap, T.rest)>>

\* ------------------------------------------------------------------------
\* The build with exceptions raised inside the handlers' try statements
\* ------------------------------------------------------------------------
FaultyPlans ==
    {("Mi" :> a) @@ ("Do" :> b) :
        a \in {Tour(km, hhmm(8, 0), hhmm(16, 0)) : km \in Kms}
              \cup {Mehrtagstour(km, hhmm(16, 0), hhmm(8, 0), 1) : km \in Kms},
        b \in {Steht, NichtVerfuegbar}}
FaultyClusters ==
    {<<Group(n, cap, cons, plan, ZeroZv)>> :
        n \in Counts, cap \in Capacities, cons \in Consumptions,
        plan \in FaultyPlans}

Faults == 0 .. 3
TourDayFaulty == TripDay("tour", Faults)
MultidayDayFaulty == TripDay("mehrtagstour", Faults)

InitFaulty == InitBuild(FaultyClusters)

NextFaulty ==
    \/ CreditGroup
    \/ ExcludedDay
    \/ StationaryDay
    \/ UnavailableDay
    \/ TourDayFaulty
    \/ MultidayDayFaulty
    \/ ClampGroup
    \/ SetEnergyDemand
    \/ SetRestEnergy

SpecFaulty == InitFaulty /\ [][NextFaulty]_vars

\* ------------------------------------------------------------------------
\* The consolidation passes on free-standing tables
\* ------------------------------------------------------------------------
CapacityValues == {0, 2}
RawValues == {0, 1}

InitBlocks ==
    /\ cfg = <<>>
    /\ pc = "demand"
    /\ gi = 1
    /\ day = 0
    /\ available_capacity_kWh \in [1 .. TableLen -> CapacityValues]
    /\ energy_demand_kWh \in [1 .. TableLen -> RawValues]
    /\ rest_energy_kWh \in [1 .. TableLen -> RawValues]
    /\ rng = RngUnseeded
    /\ leave_deviations = <<>>
    /\ return_deviations = <<>>
    /\ calls = <<>>
    /\ trips = <<>>
    /\ net = <<>>
    /\ demand_added = 0
    /\ original_demand = <<>>
    /\ original_rest = <<>>
    /\ once = <<>>

\* Both passes applied to the table they have already consolidated.
ConsolidateAgain ==
    /\ pc = "done"
    /\ once' = table
    /\ energy_demand_kWh' =
           set_energy_demand_at_block_end(available_capacity_kWh,
                                          energy_demand_kWh)
    /\ rest_energy_kWh' =
           set_rest_energy_at_block_start(available_capacity_kWh,
                                          rest_energy_kWh)
    /\ pc' = "twice"
    /\ UNCHANGED <<cfg, gi, day, available_capacity_kWh, rng,
                   leave_deviations, return_deviations, calls, trips, net,
                   demand_added, original_demand, original_rest>>

NextBlocks ==
    \/ SetEnergyDemand
    \/ SetRestEnergy
    \/ ConsolidateAgain

SpecBlocks == InitBlocks /\ [][NextBlocks]_vars

\* ------------------------------------------------------------------------
\* The deviation generator on its own
\* ------------------------------------------------------------------------
MaxDevUnits == 2 * Scale
DevZvs ==
    {Zeitverzerrung(typ, stddev, max_dev, seed) :
        typ \in {"normal", "uniform"}, stddev \in {0, 3, DefaultStddev * Scale},
        max_dev \in 0 .. MaxDevUnits, seed \in {{}, {0}, {1}}}
DevClusters ==
    {<<Group(n, cap, cons, <<>>, zv)>> :
        n \in Counts, cap \in Capacities, cons \in Consumptions,
        zv \in DevZvs}

InitDev ==
    /\ cfg \in DevClusters
    /\ pc = "draw"
    /\ gi = 1
    /\ day = 0
    /\ available_capacity_kWh = <<>>
    /\ energy_demand_kWh = <<>>
    /\ rest_energy_kWh = <<>>
    /\ rng \in {RngUnseeded, RngSeed(1)}
    /\ leave_deviations = <<>>
    /\ return_deviations = <<>>
    /\ calls = <<>>
    /\ trips = <<>>
    /\ net = <<>>
    /\ demand_added = 0
    /\ original_demand = <<>>
    /\ original_rest = <<>>
    /\ once = <<>>

\* The draws of one handler call (lines 453-454).
DrawDeviations ==
    /\ pc = "draw"
    /\ \E entropy \in Entropies(group.anzahl, group.zeitverzerrung, rng) :
          LET draws == handler_draws(group.anzahl, group.zeitverzerrung, rng,
                                     entropy)
          IN  /\ leave_deviations' = draws.leave_deviations
              /\ return_deviations' = draws.return_deviations
              /\ calls' = draws.calls
              /\ rng' = draws.rng
    /\ pc' = "drawn"
    /\ UNCHANGED <<cfg, gi, day, table, trips, net, demand_added,
                   original_demand, original_rest, once>>

NextDev == DrawDeviations

SpecDev == InitDev /\ [][NextDev]_vars

\* ------------------------------------------------------------------------
\* Properties
\* ------------------------------------------------------------------------
Returned == pc = "done"
Clamped == pc \in {"demand", "rest", "done"}
Rows == 1 .. NRows

RECURSIVE SumRange(_, _, _)
SumRange(column, a, b) ==
    IF a > b THEN 0 ELSE column[a] + SumRange(column, a + 1, b)

\* C1: conservation of demand.  Once _set_energy_demand_at_block_end has
\* run, the sum of energy_demand_kWh over all rows equals the sum of the
\* raw demand samples the trip handlers added to the table.
C1_DemandConserved ==
    pc \in {"rest", "done"} => SumSeq(energy_demand_kWh) = demand_added

\* C2: the clamp is a fleet-wide floor.  In the clamped table every row's
\* capacity is max(0, sum over all groups of credits minus reductions).
C2_FleetWideFloor ==
    Clamped => \A r \in Rows : available_capacity_kWh[r] = Max(0, net[r])

\* C3: the end-to-end weekly day-trip.  One group of one vehicle without
\* deviation, a day-trip with on-grid departure D < return R on exactly one
\* weekday, all other weekdays stationary: the returned table has the full
\* capacity on every row of the other non-excluded days, 0 on the rows
\* D .. R - resolution of every non-excluded trip day, km x consumption as
\* demand at the row D - resolution and max(capacity - km x consumption, 0)
\* as rest energy at the row R.
TripDaysOfPlan(plan) == {w \in DOMAIN plan : plan[w].mode # "steht"}
IsWeeklyDayTrip(c) ==
    /\ Len(c) = 1
    /\ c[1].anzahl = 1
    /\ c[1].zeitverzerrung.max_abweichung_minuten = 0
    /\ Cardinality(TripDaysOfPlan(c[1].wochenplan)) = 1
    /\ \A w \in TripDaysOfPlan(c[1].wochenplan) :
          LET t == c[1].wochenplan[w]
          IN  /\ t.mode = "tour"
              /\ t.abfahrt < t.rueckkehr
              /\ t.abfahrt % freq_delta = 0
              /\ t.rueckkehr % freq_delta = 0
C3_WeeklyDayTrip ==
    (Returned /\ IsWeeklyDayTrip(cfg)) =>
        \A d \in days_of_year \ exclusion_days :
            LET g == cfg[1]
                t == PlanEntry(g.wochenplan, d)
                D == d * MinutesPerDay + t.abfahrt
                R == d * MinutesPerDay + t.rueckkehr
                need == t.km * g.verbrauch_kwh_pro_km
            IN  IF t.mode = "steht"
                THEN \A r \in Rows :
                        DayOfRow(r) = d =>
                            available_capacity_kWh[r] = g.akku_kapazitaet_kwh
                ELSE /\ \A r \in Rows :
                           (Ts(r) >= D /\ Ts(r) <= R - freq_delta) =>
                               available_capacity_kWh[r] = 0
                     /\ energy_demand_kWh[RowOf(D - freq_delta)] = need
                     /\ rest_energy_kWh[RowOf(R)] =
                            Max(g.akku_kapazitaet_kwh - need, 0)

\* C4: zero-padding.  In the returned table every row of the first two and
\* the last two days of the year has capacity 0, whatever the
\* configuration; with a single all-stationary group every row of every
\* other day has capacity x count.
AllStationary(g) ==
    \A w \in DOMAIN g.wochenplan : g.wochenplan[w].mode = "steht"
C4_ZeroPadding ==
    Returned =>
        /\ \A r \in Rows :
              DayOfRow(r) \in exclusion_days => available_capacity_kWh[r] = 0
        /\ (Len(cfg) = 1 /\ AllStationary(cfg[1])) =>
              \A r \in Rows :
                  DayOfRow(r) \notin exclusion_days =>
                      available_capacity_kWh[r] =
                          cfg[1].akku_kapazitaet_kwh * cfg[1].anzahl
\* A returned table of two groups in which a trip ran into an excluded day.
C4_Witness ==
    /\ Returned
    /\ Len(cfg) = 2
    /\ \E r \in Rows : DayOfRow(r) \in exclusion_days /\ net[r] < 0

\* C5: block placement.  After the consolidation, for each maximal run of
\* rows with capacity > 0 (runs touching the first or last row included),
\* energy_demand_kWh at the run's last row is the sum of the raw demand
\* over the run and 0 at the run's other rows; rest_energy_kWh at the run's
\* first row is the sum of the raw rest energy over the run and 0 at the
\* run's other rows; the i-th detected start and the i-th detected end
\* belong to the same run.
IsRun(capacity, a, b) ==
    /\ a <= b
    /\ \A r \in a .. b : capacity[r] > 0
    /\ a = 1 \/ capacity[a - 1] <= 0
    /\ b = Len(capacity) \/ capacity[b + 1] <= 0
Runs(capacity) ==
    {ab \in (1 .. Len(capacity)) \X (1 .. Len(capacity)) :
        IsRun(capacity, ab[1], ab[2])}
C5_BlockPlacement ==
    LET capacity == available_capacity_kWh
        starts == block_starts(has_capacity(capacity))
        ends == block_ends(has_capacity(capacity))
    IN  /\ pc \in {"rest", "done"} =>
              /\ Len(starts) = Len(ends)
              /\ \A i \in 1 .. Len(starts) :
                    IsRun(capacity, starts[i], ends[i])
              /\ \A ab \in Runs(capacity) :
                    /\ energy_demand_kWh[ab[2]] =
                           SumRange(original_demand, ab[1], ab[2])
                    /\ \A r \in ab[1] .. (ab[2] - 1) : energy_demand_kWh[r] = 0
        /\ pc = "done" =>
              \A ab \in Runs(capacity) :
                  /\ rest_energy_kWh[ab[1]] =
                         SumRange(original_rest, ab[1], ab[2])
                  /\ \A r \in (ab[1] + 1) .. ab[2] : rest_energy_kWh[r] = 0
\* A consolidated table with a run of two rows at its start, both with raw
\* demand and raw rest energy, a gap, and a run touching the last row.
C5_Witness ==
    /\ pc = "done"
    /\ Len(available_capacity_kWh) >= 4
    /\ IsRun(available_capacity_kWh, 1, 2)
    /\ available_capacity_kWh[Len(available_capacity_kWh)] > 0
    /\ original_demand[1] > 0 /\ original_demand[2] > 0
    /\ original_rest[1] > 0 /\ original_rest[2] > 0

\* C6: idempotence of the consolidation.  Applying both passes to the
\* consolidated table leaves all three columns as they were.
C6_Idempotent == pc = "twice" => table = once
\* The first application moved demand and rest energy, and the second was
\* applied to its result.
C6_Witness ==
    /\ pc = "twice"
    /\ once[2] # original_demand
    /\ once[3] # original_rest
    /\ SumSeq(once[2]) > 1

\* C7: sequential consumption of the random state.  Within a handler call
\* the return-deviation call of the generator takes its draws from the
\* state in which the departure-deviation call left the stream.
C7_SequentialDraws ==
    calls # <<>> => calls[2].from = calls[1].to

\* C8: deviation range.  Every value generate_time_deviations returns lies
\* within [-max_abweichung_minuten, max_abweichung_minuten].
WithinMax(devs, zv) ==
    \A i \in 1 .. Len(devs) :
        /\ -zv.max_abweichung_minuten <= devs[i] * Scale
        /\ devs[i] * Scale <= zv.max_abweichung_minuten
C8_DeviationRange ==
    pc = "drawn" =>
        /\ WithinMax(leave_deviations, cfg[1].zeitverzerrung)
        /\ WithinMax(return_deviations, cfg[1].zeitverzerrung)

\* C9: return-date resolution.  For a day-trip and for a multi-day trip
\* with days_later = 0 the return timestamp lies on the departure day when
\* the deviated return time is later than the deviated departure time and
\* on the next day otherwise; with days_later = k > 0 it lies on day + k.
\* The return timestamp is always later than the departure timestamp.
C9_ReturnDate ==
    \A i \in 1 .. Len(trips) :
        LET trip == trips[i]
            return_date == trip.rt \div MinutesPerDay
        IN  /\ trip.rt % MinutesPerDay = trip.actual_ret
            /\ IF trip.mode = "mehrtagstour" /\ trip.offset > 0
               THEN return_date = trip.day + trip.offset
               ELSE IF trip.actual_ret > trip.actual_leave
                    THEN return_date = trip.day
                    ELSE return_date = trip.day + 1
            /\ trip.rt > trip.lt
\* A day-trip whose deviated return time equals its deviated departure time
\* although the base times differ, resolved to the next day.
C9_Witness ==
    \E i \in 1 .. Len(trips) :
        /\ trips[i].mode = "tour"
        /\ trips[i].base_leave # trips[i].base_ret
        /\ trips[i].actual_ret = trips[i].actual_leave
        /\ trips[i].rt = trips[i].lt + MinutesPerDay

\* C10: per-trip failure tolerance.  A vehicle in whose processing an
\* exception was raised has changed no row of any of the three columns.
C10_NothingContributed ==
    \A i \in 1 .. Len(trips) :
        trips[i].fault # 0 =>
            /\ ~trips[i].changed.cap
            /\ ~trips[i].changed.dem
            /\ ~trips[i].changed.rest

\* C11: absence interval.  A vehicle whose trip lies in the table range
\* lowers the capacity by its battery capacity at exactly the rows from the
\* departure up to one step before the return, and at none when the trip is
\* shorter than one step or no row falls in the interval; its demand sample
\* is written one step before the floored departure and its rest sample at
\* the floored return in either case.
AbsenceRows(lt, rt) ==
    {r \in 1 .. NRows : Ts(r) >= lt /\ Ts(r) <= rt - freq_delta}

C11_AbsenceInterval ==
    \A i \in 1 .. Len(trips) :
        LET trip == trips[i]
            rest_amount == Max(trip.cap - trip.demand, 0)
        IN  ~trip.skipped =>
                /\ trip.written.cap =
                       {<<r, 0 - trip.cap>> : r \in AbsenceRows(trip.lt, trip.rt)}
                /\ (trip.rt - trip.lt < freq_delta => trip.written.cap = {})
                /\ trip.written.dem =
                       {<<RowOf(Floor(trip.lt) - freq_delta), trip.demand>>}
                /\ trip.written.rest =
                       IF rest_amount = 0 THEN {}
                       ELSE {<<RowOf(Floor(trip.rt)), rest_amount>>}

\* A trip shorter than one step: no capacity row changed, both samples
\* written.
C11_Witness ==
    \E i \in 1 .. Len(trips) :
        /\ ~trips[i].skipped
        /\ trips[i].rt > trips[i].lt
        /\ trips[i].rt - trips[i].lt < freq_delta
        /\ trips[i].written.cap = {}
        /\ trips[i].written.dem # {}
        /\ trips[i].written.rest # {}

\* C12: shape of the returned table.  All three columns are non-negative at
\* every row; a row without capacity carries neither demand nor rest
\* energy; a non-zero demand stands only at the last row of a block and a
\* non-zero rest energy only at the first row of a block.
IsBlockStart(capacity, r) ==
    capacity[r] > 0 /\ (r = 1 \/ capacity[r - 1] <= 0)

IsBlockEnd(capacity, r) ==
    capacity[r] > 0 /\ (r = Len(capacity) \/ capacity[r + 1] <= 0)

C12_OutputShape ==
    Returned =>
        \A r \in Rows :
            /\ available_capacity_kWh[r] >= 0
            /\ energy_demand_kWh[r] >= 0
            /\ rest_energy_kWh[r] >= 0
            /\ available_capacity_kWh[r] = 0 =>
                   energy_demand_kWh[r] = 0 /\ rest_energy_kWh[r] = 0
            /\ energy_demand_kWh[r] # 0 =>
                   IsBlockEnd(available_capacity_kWh, r)
            /\ rest_energy_kWh[r] # 0 =>
                   IsBlockStart(available_capacity_kWh, r)

\* A returned table in which raw rest energy and raw demand had been
\* sampled on rows without capacity, and which still carries demand and
\* rest energy elsewhere.
C12_Witness ==
    /\ Returned
    /\ \E r \in Rows : available_capacity_kWh[r] = 0 /\ original_rest[r] > 0
    /\ \E r \in Rows : available_capacity_kWh[r] = 0 /\ original_demand[r] > 0
    /\ \E r \in Rows : energy_demand_kWh[r] > 0
    /\ \E r \in Rows : rest_energy_kWh[r] > 0

\* C13: group-order independence.  With all deviations 0, the returned
\* table is the table the build returns for every reordering of the
\* cluster's groups.
Reorderings(c) ==
    {[i \in 1 .. Len(c) |-> c[p[i]]] : p \in Permutations(1 .. Len(c))}

C13_GroupOrderIndependent ==
    (Returned /\ ZeroDeviations(cfg)) =>
        \A c \in Reorderings(cfg) : table = build_cluster_timeseries(c)

\* C14: the deviation keeps the trip near its nominal time.  For every
\* vehicle, the departure timestamp is the trip day combined with the base
\* departure time, shifted by exactly the drawn deviation, also when base
\* time plus deviation crosses midnight.
NominalLeave(trip) == trip.day * MinutesPerDay + trip.base_leave

C14_DeviationFromNominal ==
    \A i \in 1 .. Len(trips) :
        trips[i].lt - NominalLeave(trips[i]) = trips[i].dev_leave

====
